---- MODULE Spec2Model ----
(***************************************************************************)
(* ASEG -> table converter (src/src/App.tsx).                              *)
(*                                                                         *)
(* Strings are sequences of tokens.  A token is one character ("a", "5",   *)
(* ":", ",", ".", "SP", "TAB", "NL", "CR") or a whole word that none of    *)
(* the program's string operations can cut ("constructor", "Measure",      *)
(* "s1", "txt", ...): trim, split, indexOf(':') and stripExt only look at  *)
(* whitespace, tab, comma, colon and dot.  The empty string is << >>.      *)
(*                                                                         *)
(* JavaScript values are tagged tuples: <<"undefined">>, <<"str", s>>,     *)
(* <<"num", s>> (s the decimal rendering of the number), <<"fn", s>> (an   *)
(* inherited member of Object.prototype, s its rendering),                 *)
(* <<"file", name, text>> and <<"parsed", metrics, order>>.  A plain       *)
(* object ({}) is the sequence of its own <<key, value>> properties in     *)
(* insertion order; its prototype is Object.prototype.                     *)
(***************************************************************************)
EXTENDS Integers, Sequences, FiniteSets, TLC

VARIABLES
    \* ---- parseSubjectTxt, run line by line (SpecParse)
    ptext,        \* the text given to parseSubjectTxt
    plines,       \* lines of the for loop still to be processed
    metrics,      \* const metrics: SubjectMetrics = {}
    order,        \* const order: string[] = []
    ppc,          \* "loop" | "done"
    prule,        \* the branch the last processed line took
    pline,        \* the last processed line
    pkv,          \* the key / val locals of the branch the last line took
    \* ---- resolveFileForId (SpecResolve) and the App (Spec)
    subjectFiles,       \* useState<SubjectMap>({})
    rupload,            \* the FileList handed to handleSubjectsInput
    rpc,                \* "idle" | "upload" | "resolve" | "resolved"
    rid,                \* argument of the resolveFileForId call
    rfile,              \* its result
    participantsParsed, \* useState<ParsedTable | null>(null)
    idColumn,           \* useState<string>('')
    rowLabelTemplate,   \* useState<string>('{id}')
    mergeCovariates,    \* useState<boolean>(false)
    preview,            \* useState<string[][]>([])
    warnings,           \* useState<string[]>([])
    saved,              \* rows handed to saveAs, << >> when none yet
    pendingRoster,      \* the table handleParticipantsInput is still reading, or Null
    builds,             \* the buildMatrix runs, one record per click
    changes             \* number of input events so far

pvars == <<ptext, plines, metrics, order, ppc, prule, pline, pkv>>
rvars == <<rupload, rpc, rid, rfile>>
avars == <<participantsParsed, idColumn, rowLabelTemplate, mergeCovariates,
           preview, warnings, saved, pendingRoster, builds, changes>>
vars == <<pvars, subjectFiles, rvars, avars>>

----------------------------------------------------------------------------
(* Sequence helpers *)

Range(s) == {s[i] : i \in 1..Len(s)}

Front(s) == SubSeq(s, 1, Len(s) - 1)

Last(s) == s[Len(s)]

RECURSIVE Flatten(_)
Flatten(ss) == IF ss = << >> THEN << >> ELSE Head(ss) \o Flatten(Tail(ss))

\* the sequence without the repeats of an earlier element
FirstOccurrences(ks) ==
    LET keep == {i \in 1..Len(ks) : \A j \in 1..(i - 1) : ks[j] # ks[i]}
        nth(j) == CHOOSE i \in keep : Cardinality({k \in keep : k < i}) = j - 1
    IN [j \in 1..Cardinality(keep) |-> ks[nth(j)]]

RECURSIVE SeqsUpTo(_, _)
SeqsUpTo(S, n) ==
    IF n = 0 THEN {<< >>}
    ELSE LET shorter == SeqsUpTo(S, n - 1)
         IN shorter \cup {Append(s, x) : s \in {t \in shorter : Len(t) = n - 1}, x \in S}

----------------------------------------------------------------------------
(* Character classes *)

Whitespace == {"SP", "TAB", "NL", "CR"}

NonWordChars == Whitespace \cup {":", ",", ".", "/", "-"}

IsWordChar(t) == t \notin NonWordChars

Digits == {"0", "5"}

toLowerCase(t) ==
    CASE t = "Measure" -> "measure"
      [] t = "MEASURE" -> "measure"
      [] t = "Volume"  -> "volume"
      [] OTHER -> t

----------------------------------------------------------------------------
(* String.prototype.trim / split / indexOf / join *)

RECURSIVE trimStart(_)
trimStart(s) ==
    IF s # << >> /\ Head(s) \in Whitespace THEN trimStart(Tail(s)) ELSE s

RECURSIVE trimEnd(_)
trimEnd(s) ==
    IF s # << >> /\ Last(s) \in Whitespace THEN trimEnd(Front(s)) ELSE s

trim(s) == trimEnd(trimStart(s))

\* s.split(sep) for a one-character separator: the pieces between separators,
\* empty pieces kept
RECURSIVE splitChar(_, _)
splitChar(s, sep) ==
    IF \A i \in 1..Len(s) : s[i] # sep THEN <<s>>
    ELSE LET i == CHOOSE j \in 1..Len(s) : s[j] = sep /\ \A k \in 1..(j - 1) : s[k] # sep
         IN <<SubSeq(s, 1, i - 1)>> \o splitChar(SubSeq(s, i + 1, Len(s)), sep)

\* s.split(/\s{2,}|\s+/): every maximal run of whitespace is one separator
RECURSIVE splitWs(_)
splitWs(s) ==
    IF \A i \in 1..Len(s) : s[i] \notin Whitespace THEN <<s>>
    ELSE LET i == CHOOSE j \in 1..Len(s) :
                      s[j] \in Whitespace /\ \A k \in 1..(j - 1) : s[k] \notin Whitespace
         IN <<SubSeq(s, 1, i - 1)>> \o splitWs(trimStart(SubSeq(s, i, Len(s))))

\* text.split(/\r?\n/): a separator is NL, with the CR right before it if any
RECURSIVE splitLines(_)
splitLines(s) ==
    IF \A i \in 1..Len(s) : s[i] # "NL" THEN <<s>>
    ELSE LET i == CHOOSE j \in 1..Len(s) : s[j] = "NL" /\ \A k \in 1..(j - 1) : s[k] # "NL"
             e == IF i > 1 /\ s[i - 1] = "CR" THEN i - 2 ELSE i - 1
         IN <<SubSeq(s, 1, e)>> \o splitLines(SubSeq(s, i + 1, Len(s)))

\* s.indexOf(c), 0-based, -1 when absent
indexOf(s, c) ==
    IF \E i \in 1..Len(s) : s[i] = c
    THEN (CHOOSE i \in 1..Len(s) : s[i] = c /\ \A k \in 1..(i - 1) : s[k] # c) - 1
    ELSE -1

\* parts.join(' ')
RECURSIVE join(_)
join(parts) ==
    IF parts = << >> THEN << >>
    ELSE IF Len(parts) = 1 THEN parts[1]
    ELSE parts[1] \o <<"SP">> \o join(Tail(parts))

----------------------------------------------------------------------------
(* Plain objects and Object.prototype *)

Undefined == <<"undefined">>

IsUndefined(v) == v[1] = "undefined"

\* names every plain object inherits (the ones the token alphabet can spell)
ObjectPrototypeKeys == {<<"constructor">>, <<"toString">>, <<"valueOf">>}

ProtoAccessor == <<"__proto__">>

InheritedValue(k) ==
    IF k = ProtoAccessor THEN <<"fn", <<"[object Object]">>>>
    ELSE <<"fn", <<"function Object() { [native code] }">>>>

HasOwn(o, k) == \E i \in 1..Len(o) : o[i][1] = k

OwnValue(o, k) == o[CHOOSE i \in 1..Len(o) : o[i][1] = k][2]

\* k in o: own or inherited
In(o, k) == HasOwn(o, k) \/ k \in ObjectPrototypeKeys \/ k = ProtoAccessor

\* o[k]
Get(o, k) ==
    IF HasOwn(o, k) THEN OwnValue(o, k)
    ELSE IF k \in ObjectPrototypeKeys \/ k = ProtoAccessor THEN InheritedValue(k)
    ELSE Undefined

\* o[k] = v: overwrites in place, else appends; o.__proto__ = <primitive> is ignored
Set(o, k, v) ==
    IF k = ProtoAccessor THEN o
    ELSE IF HasOwn(o, k)
    THEN [i \in 1..Len(o) |-> IF o[i][1] = k THEN <<k, v>> ELSE o[i]]
    ELSE Append(o, <<k, v>>)

\* canonical array index: "0", or digits without a leading zero
IsIndexKey(k) ==
    /\ k # << >>
    /\ \A i \in 1..Len(k) : k[i] \in Digits
    /\ (Len(k) > 1 => k[1] # "0")

DigitValue(d) == IF d = "0" THEN 0 ELSE 5

RECURSIVE NumberValue(_)
NumberValue(k) ==
    IF k = << >> THEN 0 ELSE 10 * NumberValue(Front(k)) + DigitValue(Last(k))

RECURSIVE SortIndexKeys(_)
SortIndexKeys(S) ==
    IF S = {} THEN << >>
    ELSE LET m == CHOOSE x \in S : \A y \in S : NumberValue(x) <= NumberValue(y)
         IN <<m>> \o SortIndexKeys(S \ {m})

\* Object.keys(o): index keys ascending, then the other keys in insertion order
ObjectKeys(o) ==
    LET own == [i \in 1..Len(o) |-> o[i][1]]
    IN SortIndexKeys({k \in Range(own) : IsIndexKey(k)})
         \o SelectSeq(own, LAMBDA k : ~IsIndexKey(k))

----------------------------------------------------------------------------
(* App.tsx helpers *)

\* normalize(s) = String(s || '').trim(), s a string or undefined
normalize(v) == IF IsUndefined(v) THEN << >> ELSE trim(v[2])

stripExt(name) ==
    LET dots == {i \in 1..Len(name) : name[i] = "."}
    IN IF dots = {} THEN name
       ELSE LET d == CHOOSE i \in dots : \A j \in dots : j <= i
            IN IF d < Len(name) THEN SubSeq(name, 1, d - 1) ELSE name

\* mutant: comma tried before tab
splitByAny_CommaFirst(line) ==
    LET tab == splitChar(line, "TAB")
        csv == splitChar(line, ",")
    IN IF Len(csv) > 1 THEN csv
       ELSE IF Len(tab) > 1 THEN tab
       ELSE splitWs(trim(line))

splitByAny(line) ==
    LET tab == splitChar(line, "TAB")
        csv == splitChar(line, ",")
    IN IF Len(tab) > 1 THEN tab
       ELSE IF Len(csv) > 1 THEN csv
       ELSE splitWs(trim(line))

\* Number(s) is finite, for s trimmed and non-empty over the token alphabet:
\* digits with at most one decimal point
IsFiniteNumber(s) ==
    /\ \A i \in 1..Len(s) : s[i] \in Digits \cup {"."}
    /\ Cardinality({i \in 1..Len(s) : s[i] = "."}) <= 1
    /\ \E i \in 1..Len(s) : s[i] \in Digits

RECURSIVE StripLeadingZeros(_)
StripLeadingZeros(s) ==
    IF s # << >> /\ Head(s) = "0" THEN StripLeadingZeros(Tail(s)) ELSE s

RECURSIVE StripTrailingZeros(_)
StripTrailingZeros(s) ==
    IF s # << >> /\ Last(s) = "0" THEN StripTrailingZeros(Front(s)) ELSE s

\* Number(s).toString()
NumberToString(s) ==
    LET d == indexOf(s, ".")
        ip == StripLeadingZeros(IF d < 0 THEN s ELSE SubSeq(s, 1, d))
        fp == StripTrailingZeros(IF d < 0 THEN << >> ELSE SubSeq(s, d + 2, Len(s)))
    IN (IF ip = << >> THEN <<"0">> ELSE ip) \o (IF fp = << >> THEN << >> ELSE <<".">> \o fp)

coerceNumber(v) ==
    LET s == trim(v)
    IN IF s = << >> THEN <<"str", << >>>>
       ELSE IF IsFiniteNumber(s) THEN <<"num", NumberToString(s)>>
       ELSE <<"str", s>>

\* /^Measure:volume\b/i.test(line)
IsMeasureHeader(line) ==
    /\ Len(line) >= 3
    /\ toLowerCase(line[1]) = "measure"
    /\ line[2] = ":"
    /\ toLowerCase(line[3]) = "volume"
    /\ (Len(line) > 3 => ~IsWordChar(line[4]))

\* text.split(/\r?\n/).map(l => l.trim()).filter(Boolean)
textLines(text) ==
    LET raw == splitLines(text)
    IN SelectSeq([i \in 1..Len(raw) |-> trim(raw[i])], LAMBDA l : l # << >>)

\* the branch of the loop body a line takes (lines 47-68)
lineRule(line) ==
    IF IsMeasureHeader(line) THEN "header"
    ELSE IF indexOf(line, ":") > 0 THEN "colon"
    ELSE "delim"

\* the key / val locals of that branch, << >> when the branch computes none
lineKV(line) ==
    CASE lineRule(line) = "header" -> << >>
      [] lineRule(line) = "colon" ->
            LET c == indexOf(line, ":")
            IN <<trim(SubSeq(line, 1, c)), trim(SubSeq(line, c + 2, Len(line)))>>
      [] OTHER ->
            LET parts == splitByAny(line)
            IN IF Len(parts) >= 2 THEN <<join(Front(parts)), Last(parts)>> ELSE << >>

\* if (k && !(k in metrics)) order.push(k); if (k) metrics[k] = coerceNumber(v)
storeOrder(m, o, k) == IF k # << >> /\ ~In(m, k) THEN Append(o, k) ELSE o

storeMetric(m, k, v) == IF k # << >> THEN Set(m, k, coerceNumber(v)) ELSE m

RECURSIVE parseLines(_, _, _)
parseLines(lines, m, o) ==
    IF lines = << >> THEN <<"parsed", m, o>>
    ELSE LET kv == lineKV(Head(lines))
         IN IF kv = << >> THEN parseLines(Tail(lines), m, o)
            ELSE parseLines(Tail(lines), storeMetric(m, kv[1], kv[2]),
                            storeOrder(m, o, kv[1]))

parseSubjectTxt(text) == parseLines(textLines(text), << >>, << >>)

----------------------------------------------------------------------------
(* The App's functions *)

Null == <<"null">>

File(name, text) == <<"file", name, text>>

Str(s) == <<"str", s>>

\* one row of Papa.parse(..., {header: true}): an object of raw strings
Row(fields, cells) == [i \in 1..Len(cells) |-> <<fields[i], Str(cells[i])>>]

Table(fields, rows) == <<"table", rows, fields>>

\* handleSubjectsInput's map (lines 92-103)
RECURSIVE indexFiles(_, _)
indexFiles(files, map) ==
    IF files = << >> THEN map
    ELSE LET f == Head(files)
             full == normalize(Str(f[2]))
             base == stripExt(full)
         IN indexFiles(Tail(files), Set(Set(map, full, f), base, f))

\* lines 118-130; subjectFiles[k] is truthy for own entries and inherited members
resolveFileForId(pool, idRaw) ==
    LET id == normalize(Str(idRaw))
        base == stripExt(id)
        variants == <<id, base, base \o <<".", "txt">>>>
        hits == {i \in 1..3 : ~IsUndefined(Get(pool, variants[i]))}
    IN IF hits = {} THEN Undefined
       ELSE Get(pool, variants[CHOOSE i \in hits : \A j \in hits : i <= j])

\* lines 132-136
formatRowLabel(template, idRaw) ==
    LET id == normalize(Str(idRaw))
        base == stripExt(id)
    IN Flatten([i \in 1..Len(template) |->
                  IF template[i] = "{id}" THEN id
                  ELSE IF template[i] = "{base}" THEN base
                  ELSE <<template[i]>>])

\* v.toString() of a cell value
toString(v) == v[2]

\* pRows.map(r => normalize(r[idColumn])).filter(Boolean) (line 146)
rowId(row, idCol) ==
    LET v == Get(row, idCol)
    IN IF IsUndefined(v) THEN << >> ELSE trim(toString(v))

\* mutant: repeated IDs are dropped
subjectsOrderOf_Unique(table, idCol) ==
    FirstOccurrences(SelectSeq([i \in 1..Len(table[2]) |-> rowId(table[2][i], idCol)],
                               LAMBDA id : id # << >>))

subjectsOrderOf(table, idCol) ==
    SelectSeq([i \in 1..Len(table[2]) |-> rowId(table[2][i], idCol)],
              LAMBDA id : id # << >>)

\* one pass of the second loop's body (lines 176-191) for subject sid
RECURSIVE appendUnseen(_, _)
appendUnseen(cols, ks) ==
    IF ks = << >> THEN cols
    ELSE appendUnseen(IF Head(ks) \in Range(cols) THEN cols ELSE Append(cols, Head(ks)),
                      Tail(ks))

unifySubject(cols, p) ==
    IF IsUndefined(p) THEN cols
    ELSE appendUnseen(appendUnseen(cols, p[3]), ObjectKeys(p[2]))

\* lines 173-192: metricCols after the second loop has passed subjects 1..n
RECURSIVE unifyColumns(_, _, _, _)
unifyColumns(canonicalOrder, so, parsedById, n) ==
    IF n = 0 THEN (IF IsUndefined(canonicalOrder) THEN << >> ELSE canonicalOrder)
    ELSE unifySubject(unifyColumns(canonicalOrder, so, parsedById, n - 1),
                      Get(parsedById, so[n]))

\* lines 194-195
covariateColsOf(table, idCol) == SelectSeq(table[3], LAMBDA c : c # idCol)

headerOf(metricCols, covariateCols, merge) ==
    <<<<"subject">>>> \o metricCols \o (IF merge THEN covariateCols ELSE << >>)

\* pRows.find(r => normalize(r[idColumn]) === sid) || {}
findRow(table, idCol, sid) ==
    LET hits == {i \in 1..Len(table[2]) : rowId(table[2][i], idCol) = sid}
    IN IF hits = {} THEN << >>
       ELSE table[2][CHOOSE i \in hits : \A j \in hits : i <= j]

\* v ?? '' rendered by toString
cell(v) == IF IsUndefined(v) THEN << >> ELSE toString(v)

\* lines 199-212: one output row
rowOf(b, metricCols, sid) ==
    LET p == Get(b.parsedById, sid)
        m == IF IsUndefined(p) THEN << >> ELSE p[2]
        rec == findRow(b.table, b.idCol, sid)
        covs == covariateColsOf(b.table, b.idCol)
    IN <<formatRowLabel(b.template, sid)>>
         \o [j \in 1..Len(metricCols) |-> cell(Get(m, metricCols[j]))]
         \o (IF b.merge THEN [j \in 1..Len(covs) |-> cell(Get(rec, covs[j]))] ELSE << >>)

\* lines 173-215, then the caller's continuation (lines 221-223 or 228-232)
finishBuild(b) ==
    IF \E i \in 1..Len(b.so) : Get(b.parsedById, b.so[i])[1] = "fn"
    THEN [b EXCEPT !.pc = "crashed"]      \* p.order is undefined: for...of throws
    ELSE LET cols == unifyColumns(b.canonicalOrder, b.so, b.parsedById, Len(b.so))
         IN [b EXCEPT !.pc = "done",
                      !.metricCols = cols,
                      !.header = headerOf(cols, covariateColsOf(b.table, b.idCol), b.merge),
                      !.rows = [i \in 1..Len(b.so) |-> rowOf(b, cols, b.so[i])]]

\* the first loop (lines 157-170) from subject b.i up to the next await, the crash
\* on a value that is no File, or the end of buildMatrix
RECURSIVE scanSubjects(_)
scanSubjects(b) ==
    IF b.i > Len(b.so) THEN finishBuild(b)
    ELSE LET sid == b.so[b.i]
             file == resolveFileForId(b.files, sid)
         IN IF IsUndefined(file)
            THEN scanSubjects([b EXCEPT
                    !.warningsLocal = Append(@, <<"Missing file for ID:", sid>>),
                    !.i = @ + 1])
            ELSE IF file[1] # "file" THEN [b EXCEPT !.pc = "crashed"]
            ELSE [b EXCEPT !.pc = "reading"]

\* lines 140-156: a click's buildMatrix up to its first suspension
startBuild(kind, files, table, idCol, template, merge) ==
    LET b0 == [pc |-> "start", kind |-> kind, files |-> files, table |-> table,
               idCol |-> idCol, template |-> template, merge |-> merge,
               so |-> << >>, i |-> 1, warningsLocal |-> << >>, parsedById |-> << >>,
               canonicalOrder |-> Undefined, metricCols |-> << >>,
               header |-> << >>, rows |-> << >>]
    IN IF idCol = << >> THEN [b0 EXCEPT !.pc = "empty"]
       ELSE IF subjectsOrderOf(table, idCol) = << >> THEN [b0 EXCEPT !.pc = "empty"]
       ELSE scanSubjects([b0 EXCEPT !.so = subjectsOrderOf(table, idCol)])

\* mutant: every subject with a non-empty order list re-seeds the canonical order
resumeBuild_LastSeed(b) ==
    LET sid == b.so[b.i]
        parsed == parseSubjectTxt(resolveFileForId(b.files, sid)[3])
    IN scanSubjects([b EXCEPT
          !.parsedById = Set(@, sid, parsed),
          !.canonicalOrder = IF parsed[3] # << >> THEN parsed[3] ELSE @,
          !.i = @ + 1])

\* lines 163-169 once file.text() has resolved, then on to the next suspension
resumeBuild(b) ==
    LET sid == b.so[b.i]
        parsed == parseSubjectTxt(resolveFileForId(b.files, sid)[3])
    IN scanSubjects([b EXCEPT
          !.parsedById = Set(@, sid, parsed),
          !.canonicalOrder = IF IsUndefined(@) /\ parsed[3] # << >> THEN parsed[3] ELSE @,
          !.i = @ + 1])

----------------------------------------------------------------------------
(* Bounds and input sets *)

MaxTextLen == 4

MaxLines == 3

ParseChars == {"a", "5", ":", ",", "TAB", "SP", "NL", "constructor"}

SampleLines ==
    { <<"Measure", ":", "volume", "SP", "s1">>,
      <<"MEASURE", ":", "Volume", "a">>,
      <<"X", ":", "SP", "5">>,
      <<"X", "SP", "SP", "0", "5">>,
      <<"Y", "TAB", "5", ".", "0", "CR">>,
      <<"constructor", ":", "5">>,
      <<"__proto__", ",", "5">> }

RECURSIVE joinLines(_)
joinLines(ls) ==
    IF ls = << >> THEN << >>
    ELSE IF Len(ls) = 1 THEN ls[1]
    ELSE ls[1] \o <<"NL">> \o joinLines(Tail(ls))

ParseTexts ==
    SeqsUpTo(ParseChars, MaxTextLen)
        \cup {joinLines(ls) : ls \in SeqsUpTo(SampleLines, MaxLines)}

MaxBuilds == 2

MaxNameLen == 3

NameChars == {"s1", "S1", ".", "txt", "constructor"}

FileNames == SeqsUpTo(NameChars, MaxNameLen) \ {<< >>}

MaxChanges == 3

PreviewRows == 5

SubjectFileSets ==
    { << >>,
      << File(<<"s1", ".", "txt">>, <<"X", "SP", "5", "NL", "Y", ":", "0", "5">>),
         File(<<"s2", ".", "txt">>, <<"Y", "TAB", "5", "NL", "Z", ",", "5", ".", "0">>),
         File(<<"s9", ".", "txt">>, <<"X", ":", "5">>) >>,
      << File(<<"s3", ".", "txt">>, <<"constructor", ":", "5">>),
         File(<<"s1", ".", "txt">>, <<"X", "SP", "5">>),
         File(<<"SP", "s1", ".", "csv">>, <<"Z", ":", "0">>) >> }

Rosters ==
    { Table(<<<<"id">>, <<"age">>>>,
            << Row(<<<<"id">>, <<"age">>>>, <<<<"s1">>, <<"5", "0">>>>),
               Row(<<<<"id">>, <<"age">>>>, <<<<"SP">>, <<"5">>>>),
               Row(<<<<"id">>, <<"age">>>>, <<<<"s2", ".", "txt", "SP">>>>),
               Row(<<<<"id">>, <<"age">>>>, <<<<"s1">>, <<"5", "5">>>>),
               Row(<<<<"id">>, <<"age">>>>, <<<<"s3">>, <<"0">>>>) >>),
      Table(<<<<"id">>>>,
            << Row(<<<<"id">>>>, <<<<"s3">>>>),
               Row(<<<<"id">>>>, <<<<"s1">>>>),
               Row(<<<<"id">>>>, <<<<"s2">>>>) >>),
      Table(<<<<"id">>>>,
            << Row(<<<<"id">>>>, <<<<"s9">>>>),
               Row(<<<<"id">>>>, <<<<"constructor">>>>) >>),
      Table(<< >>, << >>) }

Templates == {<<"{id}">>, <<"{base}", "/", "{id}">>}

----------------------------------------------------------------------------
(* The state after construction (useState initial values, lines 76-87) *)

AppInit ==
    /\ subjectFiles = << >>
    /\ participantsParsed = Null
    /\ idColumn = << >>
    /\ rowLabelTemplate = <<"{id}">>
    /\ mergeCovariates = FALSE
    /\ preview = << >>
    /\ warnings = << >>
    /\ saved = << >>
    /\ pendingRoster = Null
    /\ builds = << >>
    /\ changes = 0

ParseIdle ==
    /\ ptext = << >>
    /\ plines = << >>
    /\ metrics = << >>
    /\ order = << >>
    /\ ppc = "idle"
    /\ prule = "none"
    /\ pline = << >>
    /\ pkv = << >>

ResolveIdle ==
    /\ rupload = << >>
    /\ rpc = "idle"
    /\ rid = << >>
    /\ rfile = Undefined

----------------------------------------------------------------------------
(* parseSubjectTxt, one loop iteration per step *)

ParseInit ==
    /\ ptext \in ParseTexts
    /\ plines = << >>
    /\ metrics = << >>
    /\ order = << >>
    /\ ppc = "start"
    /\ prule = "none"
    /\ pline = << >>
    /\ pkv = << >>
    /\ ResolveIdle
    /\ AppInit

\* lines 42-44
ParseStart ==
    /\ ppc = "start"
    /\ plines' = textLines(ptext)
    /\ metrics' = << >>
    /\ order' = << >>
    /\ ppc' = "loop"
    /\ UNCHANGED <<ptext, prule, pline, pkv, subjectFiles, rvars, avars>>

\* the body of one loop iteration (lines 47-68) on the next line
ProcessLine ==
    /\ LET line == Head(plines)
           kv == lineKV(line)
       IN /\ pline' = line
          /\ prule' = lineRule(line)
          /\ pkv' = kv
          /\ metrics' = IF kv = << >> THEN metrics ELSE storeMetric(metrics, kv[1], kv[2])
          /\ order' = IF kv = << >> THEN order ELSE storeOrder(metrics, order, kv[1])
    /\ plines' = Tail(plines)
    /\ UNCHANGED <<ptext, ppc, subjectFiles, rvars, avars>>

\* line 49
SkipHeaderLine ==
    /\ ppc = "loop" /\ plines # << >>
    /\ lineRule(Head(plines)) = "header"
    /\ ProcessLine

\* lines 52-59
ColonLine ==
    /\ ppc = "loop" /\ plines # << >>
    /\ lineRule(Head(plines)) = "colon"
    /\ ProcessLine

\* lines 62-68
DelimiterLine ==
    /\ ppc = "loop" /\ plines # << >>
    /\ lineRule(Head(plines)) = "delim"
    /\ ProcessLine

\* line 71
ParseReturn ==
    /\ ppc = "loop"
    /\ plines = << >>
    /\ ppc' = "done"
    /\ UNCHANGED <<ptext, plines, metrics, order, prule, pline, pkv,
                   subjectFiles, rvars, avars>>

ParseNext ==
    \/ ParseStart
    \/ SkipHeaderLine
    \/ ColonLine
    \/ DelimiterLine
    \/ ParseReturn

SpecParse == ParseInit /\ [][ParseNext]_vars

----------------------------------------------------------------------------
(* The App's handlers *)

\* the state setters a build has run when it stops at b
warningsAfter(b) == IF b.pc = "done" THEN b.warningsLocal ELSE << >>

previewAfter(b) ==
    IF b.pc = "done" /\ b.kind = "preview"
    THEN <<b.header>> \o SubSeq(b.rows, 1, IF Len(b.rows) < PreviewRows THEN Len(b.rows)
                                           ELSE PreviewRows)
    ELSE preview

savedAfter(b) ==
    IF b.pc = "done" /\ b.kind = "download" THEN <<b.header>> \o b.rows ELSE saved

Init ==
    /\ ParseIdle
    /\ ResolveIdle
    /\ AppInit

\* lines 91-105
handleSubjectsInput ==
    /\ changes < MaxChanges
    /\ \E files \in SubjectFileSets : subjectFiles' = indexFiles(files, << >>)
    /\ changes' = changes + 1
    /\ UNCHANGED <<pvars, rvars, participantsParsed, idColumn, rowLabelTemplate,
                   mergeCovariates, preview, warnings, saved, pendingRoster, builds>>

\* lines 107-111: the roster is dropped, then the chosen file (if any) is read
handleParticipantsInput ==
    /\ changes < MaxChanges
    /\ pendingRoster = Null
    /\ participantsParsed' = Null
    /\ idColumn' = << >>
    /\ pendingRoster' \in Rosters \cup {Null}
    /\ changes' = changes + 1
    /\ UNCHANGED <<pvars, rvars, subjectFiles, rowLabelTemplate, mergeCovariates,
                   preview, warnings, saved, builds>>

\* lines 112-115, once file.text() has resolved
participantsLoaded ==
    /\ pendingRoster # Null
    /\ participantsParsed' = pendingRoster
    /\ idColumn' = IF pendingRoster[3] # << >> THEN pendingRoster[3][1] ELSE idColumn
    /\ pendingRoster' = Null
    /\ UNCHANGED <<pvars, rvars, subjectFiles, rowLabelTemplate, mergeCovariates,
                   preview, warnings, saved, builds, changes>>

\* line 250: the select lists the roster's columns
setIdColumn ==
    /\ changes < MaxChanges
    /\ participantsParsed # Null
    /\ \E f \in Range(participantsParsed[3]) : f # idColumn /\ idColumn' = f
    /\ changes' = changes + 1
    /\ UNCHANGED <<pvars, rvars, subjectFiles, participantsParsed, rowLabelTemplate,
                   mergeCovariates, preview, warnings, saved, pendingRoster, builds>>

\* line 267
setRowLabelTemplate ==
    /\ changes < MaxChanges
    /\ \E t \in Templates : t # rowLabelTemplate /\ rowLabelTemplate' = t
    /\ changes' = changes + 1
    /\ UNCHANGED <<pvars, rvars, subjectFiles, participantsParsed, idColumn,
                   mergeCovariates, preview, warnings, saved, pendingRoster, builds>>

\* line 282
setMergeCovariates ==
    /\ changes < MaxChanges
    /\ mergeCovariates' = ~mergeCovariates
    /\ changes' = changes + 1
    /\ UNCHANGED <<pvars, rvars, subjectFiles, participantsParsed, idColumn,
                   rowLabelTemplate, preview, warnings, saved, pendingRoster, builds>>

\* a click on one of the two buttons (lines 321-324), which are there whenever a
\* roster is loaded: buildMatrix runs with the state of the render it was made in
click(kind) ==
    \E b \in {startBuild(kind, subjectFiles, participantsParsed, idColumn,
                         rowLabelTemplate, mergeCovariates)} :
        /\ builds' = Append(builds, b)
        /\ warnings' = warningsAfter(b)
        /\ preview' = previewAfter(b)
        /\ saved' = savedAfter(b)
        /\ UNCHANGED <<pvars, rvars, subjectFiles, participantsParsed, idColumn,
                       rowLabelTemplate, mergeCovariates, pendingRoster, changes>>

\* lines 219-224
previewCSV ==
    /\ participantsParsed # Null
    /\ Len(builds) < MaxBuilds
    /\ click("preview")

\* lines 226-233
downloadCSV ==
    /\ participantsParsed # Null
    /\ Len(builds) < MaxBuilds
    /\ click("download")

\* file.text() of a suspended build resolves (line 163)
fileTextResolved ==
    \E n \in 1..Len(builds) :
        /\ builds[n].pc = "reading"
        /\ \E b \in {resumeBuild(builds[n])} :
              /\ builds' = [builds EXCEPT ![n] = b]
              /\ warnings' = IF b.pc = "done" THEN b.warningsLocal ELSE warnings
              /\ preview' = previewAfter(b)
              /\ saved' = savedAfter(b)
        /\ UNCHANGED <<pvars, rvars, subjectFiles, participantsParsed, idColumn,
                       rowLabelTemplate, mergeCovariates, pendingRoster, changes>>

Next ==
    \/ handleSubjectsInput
    \/ handleParticipantsInput
    \/ participantsLoaded
    \/ setIdColumn
    \/ setRowLabelTemplate
    \/ setMergeCovariates
    \/ previewCSV
    \/ downloadCSV
    \/ fileTextResolved

Spec == Init /\ [][Next]_vars

----------------------------------------------------------------------------
(* buildMatrix on its own: the inputs are drawn, the build steps run *)

BuildInit ==
    /\ ParseIdle
    /\ ResolveIdle
    /\ \E files \in SubjectFileSets : subjectFiles = indexFiles(files, << >>)
    /\ participantsParsed \in Rosters
    /\ idColumn \in IF participantsParsed[3] = << >> THEN {<< >>}
                    ELSE Range(participantsParsed[3])
    /\ rowLabelTemplate \in Templates
    /\ mergeCovariates \in BOOLEAN
    /\ preview = << >>
    /\ warnings = << >>
    /\ saved = << >>
    /\ pendingRoster = Null
    /\ builds = << >>
    /\ changes = 0

BuildNext ==
    \/ previewCSV
    \/ downloadCSV
    \/ fileTextResolved

SpecBuild == BuildInit /\ [][BuildNext]_vars

----------------------------------------------------------------------------
(* resolveFileForId on its own: a pool is uploaded, IDs are resolved *)

UploadLists ==
    {<<File(a, << >>)>> : a \in FileNames}
        \cup {<<File(a, << >>), File(b, << >>)>> :
                 a \in FileNames, b \in {<<"s1", ".", "txt">>, <<"s1", ".", "csv">>, <<"s1">>}}

ResolveInit ==
    /\ ParseIdle
    /\ rupload \in UploadLists
    /\ rpc = "upload"
    /\ rid = << >>
    /\ rfile = Undefined
    /\ AppInit

\* handleSubjectsInput (lines 91-105) on the drawn files
uploadSubjects ==
    /\ rpc = "upload"
    /\ subjectFiles' = indexFiles(rupload, << >>)
    /\ rpc' = "resolve"
    /\ UNCHANGED <<pvars, rupload, rid, rfile, avars>>

\* lines 118-130
resolveCall ==
    /\ rpc = "resolve"
    /\ \E id \in FileNames :
          /\ rid' = id
          /\ rfile' = resolveFileForId(subjectFiles, id)
    /\ rpc' = "resolved"
    /\ UNCHANGED <<pvars, rupload, subjectFiles, avars>>

ResolveNext ==
    \/ uploadSubjects
    \/ resolveCall

SpecResolve == ResolveInit /\ [][ResolveNext]_vars

----------------------------------------------------------------------------
(* Claims about parseSubjectTxt (under SpecParse) *)

\* the fields of a line cut at every occurrence of character c
FieldsAtChar(line, c) ==
    LET P == {i \in 1..Len(line) : line[i] = c}
        n == Cardinality(P)
        pos(j) == CHOOSE i \in P : Cardinality({k \in P : k < i}) = j - 1
    IN [j \in 1..(n + 1) |->
          SubSeq(line, IF j = 1 THEN 1 ELSE pos(j - 1) + 1,
                       IF j = n + 1 THEN Len(line) ELSE pos(j) - 1)]

\* the maximal whitespace-free stretches of a line
FieldsAtWhitespace(line) ==
    LET S == {i \in 1..Len(line) :
                 line[i] \notin Whitespace /\ (i = 1 \/ line[i - 1] \in Whitespace)}
        n == Cardinality(S)
        start(j) == CHOOSE i \in S : Cardinality({k \in S : k < i}) = j - 1
        stop(b) == CHOOSE e \in b..Len(line) :
                      /\ \A k \in b..e : line[k] \notin Whitespace
                      /\ (e = Len(line) \/ line[e + 1] \in Whitespace)
    IN [j \in 1..n |-> SubSeq(line, start(j), stop(start(j)))]

\* the first of tab, comma, whitespace-run that gives more than one field
DelimiterFields(line) ==
    IF Len(FieldsAtChar(line, "TAB")) > 1 THEN FieldsAtChar(line, "TAB")
    ELSE IF Len(FieldsAtChar(line, ",")) > 1 THEN FieldsAtChar(line, ",")
    ELSE FieldsAtWhitespace(line)

C9_ColonRule ==
    ( /\ prule # "none"
      /\ ":" \in Range(pline)
      /\ ~IsMeasureHeader(pline) )
    => LET c == CHOOSE i \in 1..Len(pline) :
                    pline[i] = ":" /\ \A k \in 1..(i - 1) : pline[k] # ":"
       IN /\ prule = "colon"
          /\ pkv = <<trim(SubSeq(pline, 1, c - 1)), trim(SubSeq(pline, c + 1, Len(pline)))>>

\* the lines' keys and values, in text order, for the lines that give a key
RECURSIVE ParsedPairs(_)
ParsedPairs(lines) ==
    IF lines = << >> THEN << >>
    ELSE LET kv == lineKV(Head(lines))
         IN (IF kv # << >> /\ kv[1] # << >> THEN <<kv>> ELSE << >>)
               \o ParsedPairs(Tail(lines))

\* C6: the order list holds each parsed key once, at its first appearance; the
\* mapping holds each key's last value; every key of the order list is in the mapping.
C6_OrderAndLastValue ==
    ppc = "done" =>
        LET kvs == ParsedPairs(textLines(ptext))
            ks == [i \in 1..Len(kvs) |-> kvs[i][1]]
            lastOf(k) == CHOOSE i \in 1..Len(kvs) :
                            kvs[i][1] = k /\ \A j \in (i + 1)..Len(kvs) : kvs[j][1] # k
        IN /\ order = FirstOccurrences(ks)
           /\ \A k \in Range(ks) :
                 /\ HasOwn(metrics, k)
                 /\ OwnValue(metrics, k) = coerceNumber(kvs[lastOf(k)][2])
           /\ \A k \in Range(order) : HasOwn(metrics, k)

----------------------------------------------------------------------------
(* Claims about resolveFileForId (under SpecResolve) *)

\* the name with its trailing extension removed
WithoutExtension(name) ==
    IF \E i \in 1..(Len(name) - 1) : name[i] = "." /\ \A j \in (i + 1)..Len(name) : name[j] # "."
    THEN LET i == CHOOSE i \in 1..(Len(name) - 1) :
                     name[i] = "." /\ \A j \in (i + 1)..Len(name) : name[j] # "."
         IN SubSeq(name, 1, i - 1)
    ELSE name

\* the keys the pool is indexed by: every uploaded file's name, with and without
\* its extension
PoolKeys(files) ==
    UNION {{trim(files[i][2]), WithoutExtension(trim(files[i][2]))} : i \in 1..Len(files)}

\* the pool's entry for a key: the last uploaded file indexed by it
PoolEntry(files, k) ==
    files[CHOOSE i \in 1..Len(files) :
             /\ k \in {trim(files[i][2]), WithoutExtension(trim(files[i][2]))}
             /\ \A j \in (i + 1)..Len(files) :
                   k \notin {trim(files[j][2]), WithoutExtension(trim(files[j][2]))}]

\* the three candidate forms of an ID, in the order they are tried
Candidates(id) ==
    <<trim(id), WithoutExtension(trim(id)), WithoutExtension(trim(id)) \o <<".", "txt">>>>

\* C5: resolveFileForId returns a file exactly when one of the three candidates is
\* a key of the pool, and then the entry of the first candidate that is one.
C5_ResolveIff ==
    rpc = "resolved" =>
        LET hits == {i \in 1..3 : Candidates(rid)[i] \in PoolKeys(rupload)}
        IN /\ (~IsUndefined(rfile)) <=> (hits # {})
           /\ hits # {} =>
                 rfile = PoolEntry(rupload, Candidates(rid)[CHOOSE i \in hits : \A j \in hits : i <= j])

----------------------------------------------------------------------------
(* Claims about buildMatrix (under SpecBuild) and about concurrent builds (Spec) *)

Done(b) == b.pc = "done"

\* the trimmed ID of a roster entry, empty when the entry has none
EntryId(b, e) ==
    IF HasOwn(b.table[2][e], b.idCol) THEN trim(OwnValue(b.table[2][e], b.idCol)[2]) ELSE << >>

\* the roster entries that have an ID, in roster order
IdEntries(b) ==
    LET keep == {e \in 1..Len(b.table[2]) : EntryId(b, e) # << >>}
        nth(j) == CHOOSE e \in keep : Cardinality({k \in keep : k < e}) = j - 1
    IN [j \in 1..Cardinality(keep) |-> nth(j)]

\* whether an ID has a file in the pool, and that file's parsed record
PoolFiles(pool) == [i \in 1..Len(pool) |-> pool[i][2]]

HasFile(b, id) == \E i \in 1..3 : Candidates(id)[i] \in PoolKeys(PoolFiles(b.files))

RecordOf(b, id) == parseSubjectTxt(resolveFileForId(b.files, id)[3])

IsPrefix(s, t) == Len(s) <= Len(t) /\ SubSeq(t, 1, Len(s)) = s

OwnKeys(m) == [i \in 1..Len(m) |-> m[i][1]]

\* C1: the metric columns have no duplicate, hold every key of every parsed
\* subject, start with the order list of the first subject (in roster order) with a
\* file and a non-empty order list, list the other keys in the order they are first
\* met scanning the subjects in roster order, and grow only at the end.
C1_MetricColumns ==
    \A n \in 1..Len(builds) :
        Done(builds[n]) =>
            LET b == builds[n]
                ids == [j \in 1..Len(IdEntries(b)) |-> EntryId(b, IdEntries(b)[j])]
                found == {j \in 1..Len(ids) : HasFile(b, ids[j])}
                seeds == {j \in found : RecordOf(b, ids[j])[3] # << >>}
                seed == IF seeds = {} THEN << >>
                        ELSE RecordOf(b, ids[CHOOSE j \in seeds : \A k \in seeds : j <= k])[3]
                met == Flatten([j \in 1..Len(ids) |->
                          IF j \in found
                          THEN RecordOf(b, ids[j])[3] \o OwnKeys(RecordOf(b, ids[j])[2])
                          ELSE << >>])
            IN /\ \A i, j \in 1..Len(b.metricCols) :
                     i # j => b.metricCols[i] # b.metricCols[j]
               /\ \A j \in found :
                     /\ Range(RecordOf(b, ids[j])[3]) \subseteq Range(b.metricCols)
                     /\ Range(OwnKeys(RecordOf(b, ids[j])[2])) \subseteq Range(b.metricCols)
               /\ IsPrefix(seed, b.metricCols)
               /\ b.metricCols = FirstOccurrences(seed \o met)
               /\ \A k \in 1..Len(b.so) :
                     IsPrefix(unifyColumns(b.canonicalOrder, b.so, b.parsedById, k - 1),
                              unifyColumns(b.canonicalOrder, b.so, b.parsedById, k))
               /\ b.metricCols = unifyColumns(b.canonicalOrder, b.so, b.parsedById, Len(b.so))

C1_Witness ==
    \E n \in 1..Len(builds) :
        /\ Done(builds[n])
        /\ builds[n].metricCols = <<<<"X">>, <<"Y">>, <<"Z">>>>
        /\ \E i, j \in 1..Len(builds[n].so) :
              /\ i < j
              /\ HasFile(builds[n], builds[n].so[i])
              /\ HasFile(builds[n], builds[n].so[j])
              /\ RecordOf(builds[n], builds[n].so[i])[3] = <<<<"X">>, <<"Y">>>>
              /\ RecordOf(builds[n], builds[n].so[j])[3] = <<<<"Y">>, <<"Z">>>>

\* C2 as stated: one row per roster entry, row i labelled from entry i's ID, every
\* row as long as the header.
C2_RowPerRosterEntry ==
    \A n \in 1..Len(builds) :
        Done(builds[n]) =>
            LET b == builds[n]
            IN /\ Len(b.rows) = Len(b.table[2])
               /\ \A i \in 1..Len(b.rows) :
                     /\ b.rows[i][1] = formatRowLabel(b.template, EntryId(b, i))
                     /\ Len(b.rows[i]) = Len(b.header)

\* C2 amended: one row per roster entry whose trimmed ID is not empty, in roster
\* order, row j labelled from the ID of the j-th such entry (equal IDs give
\* separate rows), every row as long as the header.
C2_RowPerIdEntry ==
    \A n \in 1..Len(builds) :
        Done(builds[n]) =>
            LET b == builds[n]
            IN /\ Len(b.rows) = Len(IdEntries(b))
               /\ \A j \in 1..Len(b.rows) :
                     /\ b.rows[j][1] = formatRowLabel(b.template, EntryId(b, IdEntries(b)[j]))
                     /\ Len(b.rows[j]) = Len(b.header)

C2_Witness ==
    \E n \in 1..Len(builds) :
        /\ Done(builds[n])
        /\ builds[n].merge
        /\ Len(builds[n].metricCols) > 0
        /\ Len(builds[n].rows) < Len(builds[n].table[2])
        /\ \E i, j \in 1..Len(builds[n].rows) :
              i # j /\ builds[n].rows[i][1] = builds[n].rows[j][1]

\* C3: every roster entry without a file gets a "missing file" warning (warnings in
\* roster order) and a row of empty metric cells, and the build goes on; an entry
\* with a file gets no warning and, per metric column, its value or the empty string.
C3_MissingFileRows ==
    \A n \in 1..Len(builds) :
        builds[n].pc \in {"done", "crashed"} =>
            LET b == builds[n]
                ids == [j \in 1..Len(IdEntries(b)) |-> EntryId(b, IdEntries(b)[j])]
                cols == b.metricCols
            IN /\ Done(b)
               /\ b.warningsLocal
                     = [j \in 1..Len(SelectSeq(ids, LAMBDA id : ~HasFile(b, id))) |->
                          <<"Missing file for ID:", SelectSeq(ids, LAMBDA id : ~HasFile(b, id))[j]>>]
               /\ Len(b.rows) = Len(ids)
               /\ \A j \in 1..Len(ids) : \A c \in 1..Len(cols) :
                     b.rows[j][1 + c] =
                        IF HasFile(b, ids[j]) /\ HasOwn(RecordOf(b, ids[j])[2], cols[c])
                        THEN OwnValue(RecordOf(b, ids[j])[2], cols[c])[2]
                        ELSE << >>

\* C4: every uploaded file that no roster ID matches has an "unmatched file"
\* warning in the warning list of a build that produced its table.
C4_UnmatchedFileWarning ==
    \A n \in 1..Len(builds) :
        Done(builds[n]) =>
            LET b == builds[n]
            IN \A f \in 1..Len(b.files) :
                  (\A j \in 1..Len(b.so) : resolveFileForId(b.files, b.so[j]) # b.files[f][2])
                  => \E w \in 1..Len(b.warningsLocal) :
                        /\ b.warningsLocal[w][1] # "Missing file for ID:"
                        /\ b.warningsLocal[w][2] \in {b.files[f][1], b.files[f][2][2]}

\* C8: with covariates the header is subject, the metric columns, then the roster
\* columns other than the identifier column in roster order, and each row ends with
\* the raw values of its own roster entry (empty where absent); without covariates
\* no covariate column appears; the metric part is the same either way.
C8_Covariates ==
    \A n \in 1..Len(builds) :
        Done(builds[n]) =>
            LET b == builds[n]
                covs == SelectSeq(b.table[3], LAMBDA c : c # b.idCol)
                m == Len(b.metricCols)
            IN /\ b.header = <<<<"subject">>>> \o b.metricCols
                                \o (IF b.merge THEN covs ELSE << >>)
               /\ \A j \in 1..Len(b.rows) :
                     /\ SubSeq(b.rows[j], 1, 1 + m)
                           = SubSeq(rowOf([b EXCEPT !.merge = FALSE], b.metricCols, b.so[j]),
                                    1, 1 + m)
                     /\ Len(b.rows[j]) = 1 + m + (IF b.merge THEN Len(covs) ELSE 0)
                     /\ b.merge =>
                           \A c \in 1..Len(covs) :
                              b.rows[j][1 + m + c] =
                                 IF HasOwn(b.table[2][IdEntries(b)[j]], covs[c])
                                 THEN OwnValue(b.table[2][IdEntries(b)[j]], covs[c])[2]
                                 ELSE << >>

\* C10: at most one buildMatrix run is in flight at any time.
C10_OneBuildInFlight ==
    Cardinality({n \in 1..Len(builds) : builds[n].pc = "reading"}) <= 1

====
